---- MODULE Spec2Model ----
(***************************************************************************)
(* The request handlers of src/server.js (and the older route set of       *)
(* src/unnamed/part_000) over the external store they call.                *)
(*                                                                         *)
(* Every handler is an async function: it issues one store call, suspends  *)
(* at the await, and resumes with the call's {data, error}.  One action of *)
(* the model is one store call taking effect together with the synchronous *)
(* continuation that follows it (up to the next store call or the          *)
(* response).  Requests interleave at the awaits.  Every store call may    *)
(* report an error; a call that reports an error changes nothing.          *)
(* average_rating is kept in tenths (43 stands for 4.3).                   *)
(***************************************************************************)
EXTENDS Integers, Sequences, FiniteSets

\* ---------------------------------------------------------------- bounds
MaxReqs == 2
MaxReviews == 3
MaxLogins == 2
MaxQs == 2
MaxFail == 1
MaxUsers == 2

\* tests .. users are the store's tables and nextTestId its serial for
\* tests.id; now is the clock new Date() reads; failures counts the store
\* calls that reported an error of the store's own; started counts the
\* requests received; req holds each request's inputs, position and locals.
VARIABLES tests, questions, test_tags, admin_logs, test_reviews, users,
          nextTestId, now, failures, started, req

store == <<tests, questions, test_tags, admin_logs, test_reviews, users, nextTestId>>
vars == <<tests, questions, test_tags, admin_logs, test_reviews, users,
          nextTestId, now, failures, started, req>>

\* ---------------------------------------------------------------- inputs
\* A submitted question; has_points = FALSE is a question whose points
\* field is omitted.
Question(text, answer, has, pts) ==
    [question_text |-> text, correct_answer |-> answer, has_points |-> has, points |-> pts]

Questions ==
    { Question("a", 0, FALSE, 0), Question("b", 1, TRUE, 0), Question("c", 2, TRUE, 2) }

RECURSIVE SeqsUpTo(_, _)
SeqsUpTo(S, n) ==
    IF n = 0 THEN { <<>> }
    ELSE LET shorter == SeqsUpTo(S, n - 1)
         IN  shorter \cup { Append(s, x) : s \in { t \in shorter : Len(t) = n - 1 }, x \in S }

\* A submitted questions array holds at least one question.
QuestionLists == SeqsUpTo(Questions, MaxQs) \ { <<>> }
TagLists == { <<>>, <<1>> }
Titles == { "Quiz" }
Admins == { "root" }
TestIds == 1..MaxReqs
Ratings == { 1, 2, 4 }
Emails == { "ann", "bob" }
Passwords == { "pw1", "pw2" }
Roles == { "admin", "user" }

\* ---------------------------------------------------------------- helpers
\* String(id), as a template literal renders an id.
IdStr(id) == <<"1", "2", "3", "4", "5", "6", "7", "8">>[id]

\* Number.prototype.toString of a correct_answer index.
AnswerStr(n) == <<"0", "1", "2", "3">>[n + 1]

\* q.points || 1 : an omitted and a zero points field both give 1.
PointsOrOne(q) == IF q.has_points /\ q.points # 0 THEN q.points ELSE 1

RECURSIVE SumPoints(_)
\* questions.reduce((sum, q) => sum + (q.points || 1), 0)
SumPoints(qs) ==
    IF qs = <<>> THEN 0 ELSE PointsOrOne(Head(qs)) + SumPoints(Tail(qs))

\* questions.map((q, index) => ({test_id, ..., points: q.points || 1, order_index: index}))
QuestionsWithTestId(id, qs) ==
    [ i \in 1..Len(qs) |->
        [ test_id |-> id,
          question_text |-> qs[i].question_text,
          correct_answer |-> AnswerStr(qs[i].correct_answer),
          points |-> PointsOrOne(qs[i]),
          order_index |-> i - 1 ] ]

\* tags.map(tag => ({test_id, tag_id: tag.id}))
TestTags(id, tags) == [ i \in 1..Len(tags) |-> [test_id |-> id, tag_id |-> tags[i]] ]

\* .eq('test_id', id) on a table.
OfTest(table, id) == SelectSeq(table, LAMBDA row : row.test_id = id)
NotOfTest(table, id) == SelectSeq(table, LAMBDA row : row.test_id # id)

TestExists(id) == \E t \in tests : t.id = id
TestRow(id) == CHOOSE t \in tests : t.id = id

RemoveAt(s, i) == [ j \in 1..(Len(s) - 1) |-> IF j < i THEN s[j] ELSE s[j + 1] ]

RECURSIVE Orderings(_)
\* .order('order_index'): every arrangement of the rows with order_index
\* non-decreasing (the store fixes no order among equal keys).
Orderings(rows) ==
    IF rows = <<>> THEN { <<>> }
    ELSE UNION { { <<rows[i]>> \o rest : rest \in Orderings(RemoveAt(rows, i)) } :
                 i \in { k \in 1..Len(rows) :
                           \A j \in 1..Len(rows) : rows[k].order_index <= rows[j].order_index } }

\* Whether the store call about to be made may report an error.
Outcomes == IF failures < MaxFail THEN { TRUE, FALSE } ELSE { TRUE }
Count(ok) == failures' = IF ok THEN failures ELSE failures + 1

\* ---------------------------------------------------------------- requests
NoTest == [id |-> 0]
NoUser == [id |-> 0]
NoReview == [test_id |-> 0]
NoData == [ok |-> FALSE, rows |-> <<>>]
NoResp == [status |-> 0]
NoSnap == [taken |-> FALSE]

\* kind .. rating are the request's inputs, pc its position, at the instant
\* its new Date() read, test .. pending the handler's locals, resp the response.  History only: calls (the store
\* calls made, in order, and whether each succeeded), logged (the admin_logs
\* rows the request inserted), snap (the store when the response was sent),
\* solo (no other request was in flight while this one was).
Idle ==
    [ kind |-> "none", pc |-> "idle", id |-> 0, title |-> "", qs |-> <<>>,
      tags |-> <<>>, user |-> "", email |-> "", password |-> "", rating |-> 0,
      at |-> 0,
      test |-> NoTest, user_row |-> NoUser, review |-> NoReview, data |-> NoData, tagdata |-> NoData, reviews |-> NoData,
      pending |-> {}, resp |-> NoResp, calls |-> <<>>, logged |-> <<>>,
      snap |-> NoSnap, solo |-> TRUE ]

Active(q) == q.pc \notin { "idle", "done" }

\* The record of store call `op` of a request and whether it succeeded.
Called(q, op, ok) == [q EXCEPT !.calls = Append(@, [op |-> op, ok |-> ok])]

\* The rows about test `id` the store holds (taken in the state a response is sent).
SnapOf(ts, qs, tg, rv, lg, id) ==
    [ taken |-> TRUE,
      tests |-> { t \in ts : t.id = id },
      questions |-> OfTest(qs, id),
      test_tags |-> OfTest(tg, id),
      reviews |-> OfTest(rv, id),
      admin_logs |-> lg ]

\* res.json(...) / res.status(...).json(...): the request ends; `id` is the
\* test the request was about.  Used after the step's store updates.
Respond(q, resp, id) ==
    [q EXCEPT !.pc = "done", !.resp = resp,
              !.snap = SnapOf(tests', questions', test_tags', test_reviews', admin_logs', id)]

\* catch (error) { res.status(500).json({ success: false, error: error.message }) }
Error500 == [status |-> 500, success |-> FALSE]

\* The outcomes of a store call that the store must refuse when `refused`
\* holds (no row for .single(), no parent row for a child insert).
OutcomesUnless(refused) == IF refused THEN { FALSE } ELSE Outcomes

\* The store's foreign keys (the ones its cascading delete rests on): a
\* child row needs its test.
Orphan(id, rows) == rows # <<>> /\ ~TestExists(id)

\* Request r arrives (requests are numbered in their order of arrival); the
\* handler runs up to its first await.
Arrive(r, q) ==
    /\ req[r].pc = "idle"
    /\ r = started + 1
    /\ started' = r
    /\ req' = [ s \in DOMAIN req |->
                 IF s = r
                 THEN [q EXCEPT !.solo = \A o \in DOMAIN req : ~Active(req[o])]
                 ELSE [req[s] EXCEPT !.solo = @ /\ ~Active(req[s])] ]
    /\ UNCHANGED <<store, failures>>

\* The handlers that read no clock before their first await.
Begin(r, q) ==
    /\ Arrive(r, q)
    /\ UNCHANGED now

\* admin_logs.insert([{user_id, action_type, description}]); its error is
\* not read.
LogRow(user, action, text, ref) ==
    [user_id |-> user, action_type |-> action, description |-> <<text, ref>>]

\* ------------------------------------------------- POST /api/tests
StartCreateOf(r, lists) ==
    \E title \in Titles, qs \in lists, tags \in TagLists, by \in Admins :
        Begin(r, [Idle EXCEPT !.kind = "create", !.pc = "c_test", !.title = title,
                              !.qs = qs, !.tags = tags, !.user = by])

StartCreate(r) == StartCreateOf(r, QuestionLists)

\* A create-test request of one question (for the runs that are about the
\* test row, not its questions).
StartCreateOne(r) == StartCreateOf(r, { <<Question("a", 0, FALSE, 0)>> })

NewTest(id, q) ==
    [ id |-> id, title |-> q.title, question_count |-> Len(q.qs),
      total_points |-> SumPoints(q.qs), created_by |-> q.user, is_published |-> TRUE,
      average_rating |-> 0, review_count |-> 0, updated_at |-> 0 ]

CreateInsertTest(r) ==
    /\ req[r].pc = "c_test"
    /\ \E ok \in Outcomes :
        /\ Count(ok)
        /\ tests' = IF ok THEN tests \cup { NewTest(nextTestId, req[r]) } ELSE tests
        /\ nextTestId' = IF ok THEN nextTestId + 1 ELSE nextTestId
        /\ UNCHANGED <<questions, test_tags, admin_logs, test_reviews, users, now, started>>
        /\ LET q == Called(req[r], "c_test", ok)
           IN  req' = [req EXCEPT ![r] =
                   IF ok
                   THEN [q EXCEPT !.pc = "c_questions", !.test = NewTest(nextTestId, req[r])]
                   ELSE Respond(q, Error500, 0)]

CreateInsertQuestions(r) ==
    /\ req[r].pc = "c_questions"
    /\ LET id == req[r].test.id
           rows == QuestionsWithTestId(id, req[r].qs)
       IN  \E ok \in OutcomesUnless(Orphan(id, rows)) :
            /\ Count(ok \/ Orphan(id, rows))
            /\ questions' = IF ok THEN questions \o rows ELSE questions
            /\ UNCHANGED <<tests, test_tags, admin_logs, test_reviews, users, nextTestId,
                           now, started>>
            /\ LET q == Called(req[r], "c_questions", ok)
               IN  req' = [req EXCEPT ![r] =
                       IF ~ok THEN Respond(q, Error500, id)
                       ELSE IF Len(q.tags) > 0 THEN [q EXCEPT !.pc = "c_tags"]
                       ELSE [q EXCEPT !.pc = "c_log"]]

CreateInsertTags(r) ==
    /\ req[r].pc = "c_tags"
    /\ LET id == req[r].test.id
           rows == TestTags(id, req[r].tags)
       IN  \E ok \in OutcomesUnless(Orphan(id, rows)) :
            /\ Count(ok \/ Orphan(id, rows))
            /\ test_tags' = IF ok THEN test_tags \o rows ELSE test_tags
            /\ UNCHANGED <<tests, questions, admin_logs, test_reviews, users, nextTestId,
                           now, started>>
            /\ LET q == Called(req[r], "c_tags", ok)
               IN  req' = [req EXCEPT ![r] =
                       IF ok THEN [q EXCEPT !.pc = "c_log"] ELSE Respond(q, Error500, id)]

CreateLog(r) ==
    /\ req[r].pc = "c_log"
    /\ LET row == LogRow(req[r].user, "CREATE_TEST", "Sozdan test: ", req[r].title)
       IN  \E ok \in Outcomes :
            /\ Count(ok)
            /\ admin_logs' = IF ok THEN Append(admin_logs, row) ELSE admin_logs
            /\ UNCHANGED <<tests, questions, test_tags, test_reviews, users, nextTestId,
                           now, started>>
            /\ LET q == Called(req[r], "c_log", ok)
                   l == IF ok THEN [q EXCEPT !.logged = Append(@, row)] ELSE q
               IN  req' = [req EXCEPT ![r] =
                       Respond(l, [status |-> 200, success |-> TRUE, data |-> q.test],
                               q.test.id)]

\* ------------------------------------------------- PUT /api/tests/:id
\* The payload of tests.update, updated_at: new Date().toISOString() included,
\* is built when the request arrives, before the call is awaited.
StartUpdate(r) ==
    \E id \in TestIds, title \in Titles, qs \in QuestionLists, tags \in TagLists,
       by \in Admins :
        /\ now' = now + 1
        /\ Arrive(r, [Idle EXCEPT !.kind = "update", !.pc = "u_test", !.id = id,
                               !.title = title, !.qs = qs, !.tags = tags, !.user = by,
                               !.at = now + 1])

\* tests.update({title, description, question_count, total_points, updated_at})
UpdatedTest(row, q, at) ==
    [row EXCEPT !.title = q.title, !.question_count = Len(q.qs),
                !.total_points = SumPoints(q.qs), !.updated_at = at]

UpdateTestRow(r) ==
    /\ req[r].pc = "u_test"
    /\ LET id == req[r].id
       IN  \E ok \in OutcomesUnless(~TestExists(id)) :
            /\ Count(ok \/ ~TestExists(id))
            /\ tests' = IF ok
                        THEN (tests \ { TestRow(id) })
                                \cup { UpdatedTest(TestRow(id), req[r], req[r].at) }
                        ELSE tests
            /\ UNCHANGED <<questions, test_tags, admin_logs, test_reviews, users,
                           nextTestId, now, started>>
            /\ LET q == Called(req[r], "u_test", ok)
               IN  req' = [req EXCEPT ![r] =
                       IF ok
                       THEN [q EXCEPT !.pc = "u_delq",
                                      !.test = UpdatedTest(TestRow(id), req[r], req[r].at)]
                       ELSE Respond(q, Error500, id)]

\* questions.delete().eq('test_id', id); its error is not read.
UpdateDeleteQuestions(r) ==
    /\ req[r].pc = "u_delq"
    /\ \E ok \in Outcomes :
        /\ Count(ok)
        /\ questions' = IF ok THEN NotOfTest(questions, req[r].id) ELSE questions
        /\ UNCHANGED <<tests, test_tags, admin_logs, test_reviews, users, nextTestId,
                       now, started>>
        /\ req' = [req EXCEPT ![r] = [Called(@, "u_delq", ok) EXCEPT !.pc = "u_insq"]]

UpdateInsertQuestions(r) ==
    /\ req[r].pc = "u_insq"
    /\ LET id == req[r].id
           rows == QuestionsWithTestId(id, req[r].qs)
       IN  \E ok \in OutcomesUnless(Orphan(id, rows)) :
            /\ Count(ok \/ Orphan(id, rows))
            /\ questions' = IF ok THEN questions \o rows ELSE questions
            /\ UNCHANGED <<tests, test_tags, admin_logs, test_reviews, users, nextTestId,
                           now, started>>
            /\ LET q == Called(req[r], "u_insq", ok)
               IN  req' = [req EXCEPT ![r] =
                       IF ok THEN [q EXCEPT !.pc = "u_deltags"] ELSE Respond(q, Error500, id)]

\* test_tags.delete().eq('test_id', id); its error is not read.
UpdateDeleteTags(r) ==
    /\ req[r].pc = "u_deltags"
    /\ \E ok \in Outcomes :
        /\ Count(ok)
        /\ test_tags' = IF ok THEN NotOfTest(test_tags, req[r].id) ELSE test_tags
        /\ UNCHANGED <<tests, questions, admin_logs, test_reviews, users, nextTestId,
                       now, started>>
        /\ req' = [req EXCEPT ![r] =
                     [Called(@, "u_deltags", ok) EXCEPT
                        !.pc = IF Len(req[r].tags) > 0 THEN "u_instags" ELSE "u_log"]]

UpdateInsertTags(r) ==
    /\ req[r].pc = "u_instags"
    /\ LET id == req[r].id
           rows == TestTags(id, req[r].tags)
       IN  \E ok \in OutcomesUnless(Orphan(id, rows)) :
            /\ Count(ok \/ Orphan(id, rows))
            /\ test_tags' = IF ok THEN test_tags \o rows ELSE test_tags
            /\ UNCHANGED <<tests, questions, admin_logs, test_reviews, users, nextTestId,
                           now, started>>
            /\ LET q == Called(req[r], "u_instags", ok)
               IN  req' = [req EXCEPT ![r] =
                       IF ok THEN [q EXCEPT !.pc = "u_log"] ELSE Respond(q, Error500, id)]

UpdateLog(r) ==
    /\ req[r].pc = "u_log"
    /\ LET row == LogRow(req[r].user, "UPDATE_TEST", "Obnovlen test: ", req[r].title)
       IN  \E ok \in Outcomes :
            /\ Count(ok)
            /\ admin_logs' = IF ok THEN Append(admin_logs, row) ELSE admin_logs
            /\ UNCHANGED <<tests, questions, test_tags, test_reviews, users, nextTestId,
                           now, started>>
            /\ LET q == Called(req[r], "u_log", ok)
                   l == IF ok THEN [q EXCEPT !.logged = Append(@, row)] ELSE q
               IN  req' = [req EXCEPT ![r] =
                       Respond(l, [status |-> 200, success |-> TRUE, data |-> q.test], q.id)]

\* ------------------------------------------------- DELETE /api/tests/:id
StartDelete(r) ==
    \E id \in TestIds, by \in Admins :
        Begin(r, [Idle EXCEPT !.kind = "delete", !.pc = "d_title", !.id = id, !.user = by])

\* tests.select('title').eq('id', id).single(): only `data` is read, which is
\* null when no row matches or the call fails.
DeleteReadTitle(r) ==
    /\ req[r].pc = "d_title"
    /\ LET id == req[r].id
       IN  \E ok \in OutcomesUnless(~TestExists(id)) :
            /\ Count(ok \/ ~TestExists(id))
            /\ UNCHANGED <<store, now, started>>
            /\ req' = [req EXCEPT ![r] =
                         [Called(@, "d_title", ok) EXCEPT
                            !.pc = "d_delete",
                            !.test = IF ok THEN TestRow(id) ELSE NoTest]]

\* tests.delete().eq('id', id); the store cascades to questions and test_tags.
DeleteTestRow(r) ==
    /\ req[r].pc = "d_delete"
    /\ LET id == req[r].id
       IN  \E ok \in Outcomes :
            /\ Count(ok)
            /\ tests' = IF ok THEN { t \in tests : t.id # id } ELSE tests
            /\ questions' = IF ok THEN NotOfTest(questions, id) ELSE questions
            /\ test_tags' = IF ok THEN NotOfTest(test_tags, id) ELSE test_tags
            /\ UNCHANGED <<admin_logs, test_reviews, users, nextTestId, now, started>>
            /\ LET q == Called(req[r], "d_delete", ok)
               IN  req' = [req EXCEPT ![r] =
                       IF ok THEN [q EXCEPT !.pc = "d_log"] ELSE Respond(q, Error500, id)]

\* As `${test?.title}` would render it: no fallback to the id.
TitleOnly(test, id) == IF test # NoTest THEN test.title ELSE "undefined"

\* `${test?.title || req.params.id}`
TitleOrId(test, id) == IF test # NoTest /\ test.title # "" THEN test.title ELSE IdStr(id)

DeleteLog(r) ==
    /\ req[r].pc = "d_log"
    /\ LET row == LogRow(req[r].user, "DELETE_TEST", "Udalen test: ",
                         TitleOrId(req[r].test, req[r].id))
       IN  \E ok \in Outcomes :
            /\ Count(ok)
            /\ admin_logs' = IF ok THEN Append(admin_logs, row) ELSE admin_logs
            /\ UNCHANGED <<tests, questions, test_tags, test_reviews, users, nextTestId,
                           now, started>>
            /\ LET q == Called(req[r], "d_log", ok)
                   l == IF ok THEN [q EXCEPT !.logged = Append(@, row)] ELSE q
               IN  req' = [req EXCEPT ![r] =
                       Respond(l, [status |-> 200, success |-> TRUE], q.id)]

\* ------------------------------------------------- GET /api/tests/:id
\* kind "get" is the route of server.js, "getq" the one of part_000.
StartGet(r) ==
    \E id \in TestIds, kind \in { "get", "getq" } :
        Begin(r, [Idle EXCEPT !.kind = kind, !.pc = "g_test", !.id = id])

\* tests.select('*').eq('id', id).single(); if (error) throw error
GetReadTest(r) ==
    /\ req[r].pc = "g_test"
    /\ LET id == req[r].id
       IN  \E ok \in OutcomesUnless(~TestExists(id)) :
            /\ Count(ok \/ ~TestExists(id))
            /\ UNCHANGED <<store, now, started>>
            /\ LET q == Called(req[r], "g_test", ok)
               IN  req' = [req EXCEPT ![r] =
                       IF ~ok THEN Respond(q, [status |-> 500], id)
                       ELSE [q EXCEPT !.test = TestRow(id),
                                      !.pc = IF q.kind = "get" THEN "g_all" ELSE "g_questions",
                                      !.pending = IF q.kind = "get"
                                                  THEN { "questions", "test_tags", "test_reviews" }
                                                  ELSE {}]]

\* res.json({...test, questions: questions.data || [], tags: ..., reviews: reviews.data || []})
GetBody(q) ==
    [ status |-> 200, test |-> q.test, questions |-> q.data.rows,
      tags |-> q.tagdata.rows, reviews |-> q.reviews.rows ]

\* One of the three reads of Promise.all([...]) completes; after the last
\* one the response is sent.  No error of the three is read.
GetReadOne(r) ==
    /\ req[r].pc = "g_all"
    /\ \E what \in req[r].pending, ok \in Outcomes :
        /\ Count(ok)
        /\ UNCHANGED <<store, now, started>>
        /\ \E rows \in IF ~ok THEN { <<>> }
                       ELSE IF what = "questions" THEN Orderings(OfTest(questions, req[r].id))
                       ELSE IF what = "test_tags" THEN { OfTest(test_tags, req[r].id) }
                       ELSE { SelectSeq(OfTest(test_reviews, req[r].id),
                                        LAMBDA v : v.is_approved) } :
            LET c == Called(req[r], what, ok)
                d == [ok |-> ok, rows |-> rows]
                q == [c EXCEPT !.pending = @ \ { what },
                               !.data = IF what = "questions" THEN d ELSE @,
                               !.tagdata = IF what = "test_tags" THEN d ELSE @,
                               !.reviews = IF what = "test_reviews" THEN d ELSE @]
            IN  req' = [req EXCEPT ![r] =
                    IF q.pending = {} THEN Respond(q, GetBody(q), q.id) ELSE q]

\* part_000: res.json({...test, questions: questions || []})
GetBodyOld(q) == [status |-> 200, test |-> q.test, questions |-> q.data.rows]

\* part_000: questions.select('*').eq('test_id', id).order('order_index');
\* if (questionsError) throw questionsError
GetReadQuestions(r) ==
    /\ req[r].pc = "g_questions"
    /\ \E ok \in Outcomes :
        /\ Count(ok)
        /\ UNCHANGED <<store, now, started>>
        /\ \E rows \in IF ok THEN Orderings(OfTest(questions, req[r].id)) ELSE { <<>> } :
            LET q == [Called(req[r], "questions", ok) EXCEPT !.data = [ok |-> ok, rows |-> rows]]
            IN  req' = [req EXCEPT ![r] =
                    IF ok THEN Respond(q, GetBodyOld(q), q.id)
                    ELSE Respond(q, [status |-> 500], q.id)]

\* ------------------------------------------------- POST /api/reviews
StartReview(r) ==
    \E id \in TestIds, rating \in Ratings :
        Begin(r, [Idle EXCEPT !.kind = "review", !.pc = "r_insert", !.id = id,
                              !.rating = rating])

\* test_reviews.insert([{test_id, rating, comment, user_id: null, is_approved: true}])
NewReview(q) == [test_id |-> q.id, rating |-> q.rating, is_approved |-> TRUE]

ReviewInsert(r) ==
    /\ req[r].pc = "r_insert"
    /\ LET id == req[r].id
           row == NewReview(req[r])
       IN  \E ok \in OutcomesUnless(Orphan(id, <<row>>)) :
            /\ Count(ok \/ Orphan(id, <<row>>))
            /\ test_reviews' = IF ok THEN Append(test_reviews, row) ELSE test_reviews
            /\ UNCHANGED <<tests, questions, test_tags, admin_logs, users, nextTestId,
                           now, started>>
            /\ LET q == Called(req[r], "r_insert", ok)
               IN  req' = [req EXCEPT ![r] =
                       IF ok THEN [q EXCEPT !.pc = "r_read", !.review = row]
                       ELSE Respond(q, Error500, id)]

RECURSIVE SumRatings(_)
\* reviews.reduce((sum, r) => sum + r.rating, 0)
SumRatings(rows) == IF rows = <<>> THEN 0 ELSE Head(rows).rating + SumRatings(Tail(rows))

\* parseFloat((sum / n).toFixed(1)), in tenths: toFixed rounds to the nearest
\* tenth and a tie (a mean ending in .25 or .75, exact in binary) upwards.
\* Means whose tie is not exact in binary need n >= 20.
RoundTenths(sum, n) == (20 * sum + n) \div (2 * n)

\* updateTestRating, first call: select('rating').eq('test_id', id).eq('is_approved', true);
\* only `data` is read.  With no rows (or no data) nothing is written.
ReviewRead(r) ==
    /\ req[r].pc = "r_read"
    /\ \E ok \in Outcomes :
        /\ Count(ok)
        /\ UNCHANGED <<store, now, started>>
        /\ LET rows == IF ok
                       THEN SelectSeq(OfTest(test_reviews, req[r].id), LAMBDA v : v.is_approved)
                       ELSE <<>>
               q == [Called(req[r], "r_read", ok) EXCEPT !.reviews = [ok |-> ok, rows |-> rows]]
           IN  req' = [req EXCEPT ![r] =
                   IF ok /\ Len(rows) > 0 THEN [q EXCEPT !.pc = "r_update"]
                   ELSE Respond(q, [status |-> 200, success |-> TRUE, data |-> q.review], q.id)]

\* updateTestRating, second call: tests.update({average_rating, review_count}).eq('id', id);
\* its error is not read.
RatedTest(row, rows) ==
    [row EXCEPT !.average_rating = RoundTenths(SumRatings(rows), Len(rows)),
                !.review_count = Len(rows)]

ReviewUpdate(r) ==
    /\ req[r].pc = "r_update"
    /\ \E ok \in Outcomes :
        /\ Count(ok)
        /\ tests' = IF ok
                    THEN { IF t.id = req[r].id THEN RatedTest(t, req[r].reviews.rows) ELSE t :
                           t \in tests }
                    ELSE tests
        /\ UNCHANGED <<questions, test_tags, admin_logs, test_reviews, users, nextTestId,
                       now, started>>
        /\ LET q == Called(req[r], "r_update", ok)
           IN  req' = [req EXCEPT ![r] =
                   Respond(q, [status |-> 200, success |-> TRUE, data |-> q.review], q.id)]

\* ------------------------------------------------- POST /api/admin/login
StartLogin(r) ==
    \E email \in Emails \cup { "eve" }, password \in Passwords :
        Begin(r, [Idle EXCEPT !.kind = "login", !.pc = "l_query", !.email = email,
                              !.password = password])

\* The query without its .eq('role', 'admin').
MatchingAnyRole(email, password) ==
    { u \in DOMAIN users : users[u].email = email /\ users[u].password_hash = password }

\* users.select('*').eq('email', email).eq('password_hash', password).eq('role', 'admin')
Matching(email, password) ==
    { u \in DOMAIN users : /\ users[u].email = email
                           /\ users[u].password_hash = password
                           /\ users[u].role = "admin" }

\* res.status(401).json({ success: false, error: 'Неверные учетные данные' })
Unauthorized == [status |-> 401, success |-> FALSE, error |-> "Nevernye uchetnye dannye"]

\* .single() reports an error unless exactly one row matches; if (error || !user) return 401.
\* Otherwise the handler goes on to build the payload of users.update,
\* last_login: new Date().toISOString(), before that call is awaited.
LoginQuery(r) ==
    /\ req[r].pc = "l_query"
    /\ LET found == Matching(req[r].email, req[r].password)
       IN  \E ok \in OutcomesUnless(Cardinality(found) # 1) :
            /\ Count(ok \/ Cardinality(found) # 1)
            /\ now' = IF ok THEN now + 1 ELSE now
            /\ UNCHANGED <<store, started>>
            /\ LET q == Called(req[r], "l_query", ok)
               IN  req' = [req EXCEPT ![r] =
                       IF ok
                       THEN [q EXCEPT !.pc = "l_update", !.at = now + 1,
                                      !.user_row = users[CHOOSE u \in found : TRUE]]
                       ELSE Respond(q, Unauthorized, 0)]

\* users.update({ last_login }).eq('id', user.id) takes effect; its error is
\* not read.  res.json({ success: true, user })
LoginTouch(r) ==
    /\ req[r].pc = "l_update"
    /\ \E ok \in Outcomes :
        /\ Count(ok)
        /\ users' = IF ok
                    THEN [ u \in DOMAIN users |->
                            IF users[u].id = req[r].user_row.id
                            THEN [users[u] EXCEPT !.last_login = req[r].at]
                            ELSE users[u] ]
                    ELSE users
        /\ UNCHANGED <<tests, questions, test_tags, admin_logs, test_reviews, nextTestId,
                       now, started>>
        /\ LET q == Called(req[r], "l_update", ok)
           IN  req' = [req EXCEPT ![r] =
                   Respond(q, [status |-> 200, success |-> TRUE, user |-> q.user_row], 0)]

\* ---------------------------------------------------------------- specifications
NoRequests(n) ==
    /\ req = [ r \in 1..n |-> Idle ]
    /\ now = 0
    /\ failures = 0
    /\ started = 0

\* The server starts over an empty store.
Init ==
    /\ tests = {}
    /\ questions = <<>>
    /\ test_tags = <<>>
    /\ admin_logs = <<>>
    /\ test_reviews = <<>>
    /\ users = <<>>
    /\ nextTestId = 1
    /\ NoRequests(MaxReqs)

Next ==
    \/ \E r \in DOMAIN req : StartCreate(r)
    \/ \E r \in DOMAIN req : CreateInsertTest(r)
    \/ \E r \in DOMAIN req : CreateInsertQuestions(r)
    \/ \E r \in DOMAIN req : CreateInsertTags(r)
    \/ \E r \in DOMAIN req : CreateLog(r)
    \/ \E r \in DOMAIN req : StartDelete(r)
    \/ \E r \in DOMAIN req : DeleteReadTitle(r)
    \/ \E r \in DOMAIN req : DeleteTestRow(r)
    \/ \E r \in DOMAIN req : DeleteLog(r)
    \/ \E r \in DOMAIN req : StartGet(r)
    \/ \E r \in DOMAIN req : GetReadTest(r)
    \/ \E r \in DOMAIN req : GetReadOne(r)
    \/ \E r \in DOMAIN req : GetReadQuestions(r)

Spec == Init /\ [][Next]_vars

\* Create-test and delete-test alone.
NextDelete ==
    \/ \E r \in DOMAIN req : StartCreateOne(r)
    \/ \E r \in DOMAIN req : CreateInsertTest(r)
    \/ \E r \in DOMAIN req : CreateInsertQuestions(r)
    \/ \E r \in DOMAIN req : CreateInsertTags(r)
    \/ \E r \in DOMAIN req : CreateLog(r)
    \/ \E r \in DOMAIN req : StartDelete(r)
    \/ \E r \in DOMAIN req : DeleteReadTitle(r)
    \/ \E r \in DOMAIN req : DeleteTestRow(r)
    \/ \E r \in DOMAIN req : DeleteLog(r)

SpecDelete == Init /\ [][NextDelete]_vars

\* The store as one create-test request (questions [a], no tags) leaves it.
FirstCreate == [Idle EXCEPT !.title = "Quiz", !.qs = <<Question("a", 0, FALSE, 0)>>, !.user = "root"]

OneTest(reviewing) ==
    /\ tests = { NewTest(1, FirstCreate) }
    /\ questions = QuestionsWithTestId(1, FirstCreate.qs)
    /\ test_tags = <<>>
    /\ admin_logs = << LogRow("root", "CREATE_TEST", "Sozdan test: ", "Quiz") >>
    /\ test_reviews = <<>>
    /\ users = <<>>
    /\ nextTestId = 2
    /\ NoRequests(IF reviewing THEN MaxReviews ELSE MaxReqs)

NextUpdate ==
    \/ \E r \in DOMAIN req : StartUpdate(r)
    \/ \E r \in DOMAIN req : UpdateTestRow(r)
    \/ \E r \in DOMAIN req : UpdateDeleteQuestions(r)
    \/ \E r \in DOMAIN req : UpdateInsertQuestions(r)
    \/ \E r \in DOMAIN req : UpdateDeleteTags(r)
    \/ \E r \in DOMAIN req : UpdateInsertTags(r)
    \/ \E r \in DOMAIN req : UpdateLog(r)
    \/ \E r \in DOMAIN req : StartGet(r)
    \/ \E r \in DOMAIN req : GetReadTest(r)
    \/ \E r \in DOMAIN req : GetReadOne(r)
    \/ \E r \in DOMAIN req : GetReadQuestions(r)

InitUpdate == OneTest(FALSE)

SpecUpdate == InitUpdate /\ [][NextUpdate]_vars

NextReviews ==
    \/ \E r \in DOMAIN req : StartReview(r)
    \/ \E r \in DOMAIN req : ReviewInsert(r)
    \/ \E r \in DOMAIN req : ReviewRead(r)
    \/ \E r \in DOMAIN req : ReviewUpdate(r)

InitReviews == OneTest(TRUE)

SpecReviews == InitReviews /\ [][NextReviews]_vars

\* The users table is owned by the store; any table of MaxUsers rows.
UserTables ==
    { [ u \in 1..MaxUsers |->
          [id |-> u, email |-> f[u][1], password_hash |-> f[u][2], role |-> f[u][3],
           last_login |-> 0] ] :
      f \in [1..MaxUsers -> Emails \X Passwords \X Roles] }

InitLogin ==
    /\ tests = {}
    /\ questions = <<>>
    /\ test_tags = <<>>
    /\ admin_logs = <<>>
    /\ test_reviews = <<>>
    /\ users \in UserTables
    /\ nextTestId = 1
    /\ NoRequests(MaxLogins)

NextLogin ==
    \/ \E r \in DOMAIN req : StartLogin(r)
    \/ \E r \in DOMAIN req : LoginQuery(r)
    \/ \E r \in DOMAIN req : LoginTouch(r)

SpecLogin == InitLogin /\ [][NextLogin]_vars

\* ---------------------------------------------------------------- properties
Done(r) == req[r].pc = "done"
Requests(kind) == { r \in DOMAIN req : req[r].kind = kind }
FailedCalls(q) == { i \in 1..Len(q.calls) : ~q.calls[i].ok }
Ops(q) == [ i \in 1..Len(q.calls) |-> q.calls[i].op ]
Approved(rows) == SelectSeq(rows, LAMBDA v : v.is_approved)

RECURSIVE SubmittedPoints(_)
\* The sum of the submitted points, a question counting 1 only when its
\* points field is omitted.
SubmittedPoints(qs) ==
    IF qs = <<>> THEN 0
    ELSE (IF Head(qs).has_points THEN Head(qs).points ELSE 1) + SubmittedPoints(Tail(qs))

\* avg (in tenths) is a tenth nearest to sum / n.
NearestTenth(avg, sum, n) ==
    LET d == avg * n - 10 * sum IN 2 * (IF d < 0 THEN -d ELSE d) <= n

\* The stored rating of `row` is the rounded mean of `rows` and their number.
RatingMatches(row, rows) ==
    /\ row.review_count = Len(rows)
    /\ Len(rows) > 0 => NearestTenth(row.average_rating, SumRatings(rows), Len(rows))
    /\ Len(rows) = 0 => row.average_rating = 0

\* C1: the test row a create-test request inserts has question_count equal
\* to the number of submitted questions and total_points equal to the sum of
\* their points, an omitted points field counting 1 and an explicit one
\* (0 included) as given.
C1_CreateTotals ==
    \A r \in Requests("create") :
        req[r].test # NoTest =>
            /\ req[r].test.question_count = Len(req[r].qs)
            /\ req[r].test.total_points = SubmittedPoints(req[r].qs)

\* C2, first half: when an add-review request that no other request
\* overlapped has answered with success, the test's stored rating is the
\* rounded mean of its approved reviews and review_count is their number.
C2_MeanAfterReview ==
    \A r \in Requests("review") :
        (Done(r) /\ req[r].solo /\ req[r].resp.status = 200) =>
            \A t \in req[r].snap.tests : RatingMatches(t, Approved(req[r].snap.reviews))

\* C2, second half: when the recomputation read no approved review (or
\* could not read them), the test is left with average_rating 0 and
\* review_count 0.
C2_ZeroWhenNoReviews ==
    \A r \in Requests("review") :
        (Done(r) /\ "r_read" \in { req[r].calls[i].op : i \in 1..Len(req[r].calls) }
                 /\ req[r].reviews.rows = <<>>) =>
            \A t \in req[r].snap.tests : t.average_rating = 0 /\ t.review_count = 0

\* C2: after an add-review request the stored rating is the rounded mean of
\* the approved reviews and their number, and 0 and 0 when the
\* recomputation found none or could not read them.
C2_ReviewRecomputesRating == C2_MeanAfterReview /\ C2_ZeroWhenNoReviews

\* C3: when an update-test request answers with success, the store holds
\* for that test exactly the questions of the new list, with order_index
\* 0..n-1 in the order submitted, whatever the delete step's outcome and
\* whatever other update interleaves.
C3_UpdateReplacesQuestions ==
    \A r \in Requests("update") :
        (Done(r) /\ req[r].resp.status = 200) =>
            LET held == req[r].snap.questions
                qs == req[r].qs
            IN  /\ Len(held) = Len(qs)
                /\ \A i \in 1..Len(qs) :
                     \E j \in 1..Len(held) :
                        /\ held[j].order_index = i - 1
                        /\ held[j].question_text = qs[i].question_text

\* C4: the step by which a login request whose email, password and role
\* admin do not match exactly one user row is answered: it answers 401 with
\* the fixed body, whichever way the match fails, ends the request and
\* changes nothing in the store (last_login included).
C4_LoginMismatch ==
    [][ \A r \in DOMAIN req :
          ( /\ req[r].pc = "l_query"
            /\ req'[r].pc # "l_query"
            /\ Cardinality({ u \in DOMAIN users :
                               /\ users[u].email = req[r].email
                               /\ users[u].password_hash = req[r].password
                               /\ users[u].role = "admin" }) # 1 )
          => ( /\ req'[r].pc = "done"
               /\ req'[r].resp = [status |-> 401, success |-> FALSE,
                                  error |-> "Nevernye uchetnye dannye"]
               /\ store' = store ) ]_vars

\* Two logins have been refused: one whose email no user has, and one whose
\* email and password are those of a user that is no admin.
C4_Witness ==
    \E a, b \in Requests("login") :
        /\ Done(a) /\ req[a].resp.status = 401
        /\ \A u \in DOMAIN users : users[u].email # req[a].email
        /\ Done(b) /\ req[b].resp.status = 401
        /\ \E u \in DOMAIN users :
              /\ users[u].email = req[b].email
              /\ users[u].password_hash = req[b].password
              /\ users[u].role = "user"
        /\ \A u \in DOMAIN users : users[u].last_login = 0

\* C5: a delete-test request whose title lookup found no row (the id
\* matches no test) tolerates that: it issues the delete and, unless the
\* store fails the delete itself, inserts the log entry and answers
\* {success: true}; the entry (appended once, unless the store fails the
\* insert) is of type DELETE_TEST and names the raw id.
C5_DeleteMissingTest ==
    \A r \in Requests("delete") :
        (Done(r) /\ req[r].test = NoTest /\ req[r].calls[2].ok) =>
           LET entry == [user_id |-> req[r].user, action_type |-> "DELETE_TEST",
                         description |-> <<"Udalen test: ", IdStr(req[r].id)>>]
               logs == req[r].snap.admin_logs
           IN  /\ Ops(req[r]) = <<"d_title", "d_delete", "d_log">>
               /\ req[r].resp = [status |-> 200, success |-> TRUE]
               /\ req[r].calls[3].ok =>
                     /\ req[r].logged = <<entry>>
                     /\ Len(logs) > 0
                     /\ logs[Len(logs)] = entry
               /\ ~req[r].calls[3].ok => req[r].logged = <<>>

\* The first request, arriving at the empty store, was a delete-test: it
\* has been answered and no store call has failed but its title lookup,
\* which found no row.
C5_Witness ==
    /\ started = 1
    /\ failures = 0
    /\ req[1].kind = "delete"
    /\ Done(1)
    /\ req[1].test = NoTest
    /\ req[1].resp.status = 200
    /\ Len(admin_logs) = 1

\* C6: get-test-by-id answers with the questions in strictly ascending
\* order_index, and for a test that one create-test made and no update
\* touched, in the order submitted at creation.
C6_GetQuestionsOrder ==
    \A r \in Requests("get") \cup Requests("getq") :
        (Done(r) /\ req[r].resp.status = 200) =>
            LET got == req[r].resp.questions
            IN  /\ \A i \in 1..(Len(got) - 1) : got[i].order_index < got[i + 1].order_index
                /\ ( /\ req[r].id = 1
                     /\ req[r].data.ok
                     /\ \A u \in Requests("update") : req[u].calls = <<>> )
                   => /\ Len(got) = Len(FirstCreate.qs)
                      /\ \A i \in 1..Len(got) :
                            got[i].question_text = FirstCreate.qs[i].question_text

\* C7: a request one of whose store calls reported a failure is answered
\* with 500 (or, for a login, 401), never with success.
C7_FailureEnds500 ==
    \A r \in DOMAIN req :
        (Done(r) /\ FailedCalls(req[r]) # {}) =>
            \/ req[r].resp.status = 500
            \/ req[r].kind = "login" /\ req[r].resp.status = 401

\* C8: a create-test request that answers with success has written, in this
\* order, the test row, the question rows, the tag rows (when tags were
\* given) and one CREATE_TEST admin_logs entry, and all of them are in the
\* store when it answers.
C8_CreateSuccessImpliesWrites ==
    \A r \in Requests("create") :
        (Done(r) /\ req[r].resp.status = 200) =>
            /\ Ops(req[r]) = IF Len(req[r].tags) > 0
                             THEN <<"c_test", "c_questions", "c_tags", "c_log">>
                             ELSE <<"c_test", "c_questions", "c_log">>
            /\ \E i \in 1..Len(req[r].snap.admin_logs) :
                  /\ req[r].snap.admin_logs[i].action_type = "CREATE_TEST"
                  /\ req[r].snap.admin_logs[i].user_id = req[r].user
            /\ Len(req[r].logged) = 1
            /\ req[r].solo =>
                  /\ req[r].snap.tests = { req[r].test }
                  /\ Len(req[r].snap.questions) = Len(req[r].qs)
                  /\ Len(req[r].snap.test_tags) = Len(req[r].tags)

\* C9: when a sub-step of create-test or update-test fails after an earlier
\* write succeeded, the request answers 500, makes no later store call
\* (no tag rows, no audit-log entry) and leaves the earlier writes in place.
C9_FailedStepAborts ==
    \A r \in Requests("create") \cup Requests("update") :
        \A i \in FailedCalls(req[r]) :
            (Done(r) /\ i > 1) =>
                /\ req[r].resp.status = 500
                /\ i = Len(req[r].calls)
                /\ req[r].logged = <<>>
                /\ req[r].solo => req[r].test \in req[r].snap.tests

\* C10: once every add-review request has completed (no store call having
\* failed), each test's stored review_count is the number of its approved
\* reviews and its average_rating their rounded mean, however the requests'
\* store calls interleaved.
C10_ConcurrentReviewsConsistent ==
    (failures = 0 /\ \A r \in DOMAIN req : ~Active(req[r])) =>
        \A t \in tests : RatingMatches(t, Approved(OfTest(test_reviews, t.id)))

====
